---- MODULE Spec2Model ----
(***************************************************************************)
(* local-git-rs: the repository registry (LocalGitHub, src/src/hub.rs)     *)
(* over a directory tree, and the remote configurator (RemoteManager,      *)
(* src/src/remote.rs) over a working repository's configuration.           *)
(*                                                                         *)
(* Strings are sequences of one-character strings, so that suffix tests,   *)
(* substring search, lower-casing, byte order and length are computed.     *)
(* The file system is a function from the absolute paths that exist (a     *)
(* path is a sequence of component names) to "dir" or "file".  File        *)
(* lengths and timestamps are not carried, so RepoInfo's size and modified *)
(* fields are left out of the record.                                      *)
(***************************************************************************)
EXTENDS Integers, Sequences, FiniteSets, TLC

VARIABLES fs, pre, last, prev, cfg, rpre, rlast, procs

vars == <<fs, pre, last, prev, cfg, rpre, rlast, procs>>

None == "None"

(***************************************************************************)
(* Strings                                                                 *)
(***************************************************************************)
\* the printable ASCII characters in code order (space is 32); "grave" stands
\* for the backquote, which a string of the language cannot hold
Ascii ==
  <<" ", "!", "\"", "#", "$", "%", "&", "'", "(", ")", "*", "+", ",", "-", ".", "/",
    "0", "1", "2", "3", "4", "5", "6", "7", "8", "9", ":", ";", "<", "=", ">", "?",
    "@", "A", "B", "C", "D", "E", "F", "G", "H", "I", "J", "K", "L", "M", "N", "O",
    "P", "Q", "R", "S", "T", "U", "V", "W", "X", "Y", "Z", "[", "\\", "]", "^", "_",
    "grave", "a", "b", "c", "d", "e", "f", "g", "h", "i", "j", "k", "l", "m", "n", "o",
    "p", "q", "r", "s", "t", "u", "v", "w", "x", "y", "z", "{", "|", "}", "~">>

Ord(c) == CHOOSE i \in 1..Len(Ascii) : Ascii[i] = c

\* char::to_lowercase on the ASCII range: 'A'..'Z' move up by 'a' - 'A'
LowerChar(c) ==
  IF Ord("A") <= Ord(c) /\ Ord(c) <= Ord("Z")
    THEN Ascii[Ord(c) + (Ord("a") - Ord("A"))]
    ELSE c

\* str::to_lowercase
ToLowercase(s) == [i \in 1..Len(s) |-> LowerChar(s[i])]

\* str::ends_with
EndsWith(s, suf) ==
  /\ Len(suf) <= Len(s)
  /\ SubSeq(s, Len(s) - Len(suf) + 1, Len(s)) = suf

\* str::contains(&str): pat occurs in s as a contiguous substring
Contains(s, pat) ==
  \E i \in 1..(Len(s) - Len(pat) + 1) : SubSeq(s, i, i + Len(pat) - 1) = pat

\* str::contains(char)
ContainsChar(s, c) == \E i \in 1..Len(s) : s[i] = c

\* Ord for String: byte-wise lexicographic, a proper prefix first
StrLess(a, b) ==
  LET m == IF Len(a) < Len(b) THEN Len(a) ELSE Len(b)
      diff == {i \in 1..m : a[i] # b[i]}
  IN  IF diff = {} THEN Len(a) < Len(b)
      ELSE LET k == CHOOSE i \in diff : \A j \in diff : i <= j
           IN  Ord(a[k]) < Ord(b[k])

\* Vec<String>::sort applied to the entries read from a directory
RECURSIVE SortNames(_)
SortNames(S) ==
  IF S = {} THEN <<>>
  ELSE LET m == CHOOSE x \in S : \A y \in S \ {x} : StrLess(x, y)
       IN  <<m>> \o SortNames(S \ {m})

Rep(c, n) == [i \in 1..n |-> c]

DotGit == <<".", "g", "i", "t">>
Dot == <<".">>
DotDot == <<".", ".">>
Slash == "/"

(***************************************************************************)
(* Paths and the directory tree                                            *)
(***************************************************************************)
\* Option<T> as a sequence of at most one element
Some(v) == <<v>>
Nothing == <<>>

\* the components of a path string: split at '/', empty components dropped
RECURSIVE Components(_)
Components(s) ==
  IF s = <<>> THEN <<>>
  ELSE LET cut  == IF ContainsChar(s, Slash)
                     THEN CHOOSE i \in 1..Len(s) :
                            s[i] = Slash /\ \A j \in 1..(i - 1) : s[j] # Slash
                     ELSE Len(s) + 1
           head == SubSeq(s, 1, cut - 1)
           rest == SubSeq(s, cut + 1, Len(s))
       IN  (IF head = <<>> THEN <<>> ELSE <<head>>) \o Components(rest)

IsAbsolute(s) == s # <<>> /\ s[1] = Slash

\* Path::join: an absolute argument replaces the base
Join(base, s) == IF IsAbsolute(s) THEN Components(s) ELSE base \o Components(s)

\* Path::extension of a file name: the part after the last '.', none when
\* there is no '.' or when the only '.' is the first character
Extension(n) ==
  LET dots == {i \in 1..Len(n) : n[i] = "."}
  IN  IF n = DotDot \/ dots = {} THEN Nothing
      ELSE LET k == CHOOSE i \in dots : \A j \in dots : j <= i
           IN  IF k = 1 THEN Nothing ELSE Some(SubSeq(n, k + 1, Len(n)))

Root == <<>>
Parent(p) == IF p = Root THEN Root ELSE SubSeq(p, 1, Len(p) - 1)
IsPrefix(p, q) == Len(p) <= Len(q) /\ SubSeq(q, 1, Len(p)) = p

Exists(f, p) == p = Root \/ p \in DOMAIN f
IsDirAt(f, p) == p = Root \/ (p \in DOMAIN f /\ f[p] = "dir")

\* the walk the operating system makes over the components of a path: every
\* component is looked up in a directory, "." stays and ".." goes up
RECURSIVE Walk(_, _, _)
Walk(f, cur, comps) ==
  IF comps = <<>> THEN Some(cur)
  ELSE IF ~IsDirAt(f, cur) THEN Nothing
  ELSE LET c == Head(comps)
           next == IF c = Dot THEN cur
                   ELSE IF c = DotDot THEN Parent(cur)
                   ELSE Append(cur, c)
       IN  Walk(f, next, Tail(comps))

\* where a path leads, when it leads to something that exists
Resolve(f, comps) ==
  LET w == Walk(f, Root, comps)
  IN  IF w # Nothing /\ Exists(f, w[1]) THEN w ELSE Nothing

\* Path::exists
PathExists(f, comps) == Resolve(f, comps) # Nothing

\* Path::is_dir
PathIsDir(f, comps) ==
  LET r == Resolve(f, comps) IN r # Nothing /\ IsDirAt(f, r[1])

\* the entries fs::read_dir yields for a directory
Children(f, d) == {q \in DOMAIN f : Len(q) = Len(d) + 1 /\ IsPrefix(d, q)}

\* f with the entries of g added
Extend(f, g) ==
  [p \in DOMAIN f \cup DOMAIN g |-> IF p \in DOMAIN g THEN g[p] ELSE f[p]]

\* fs::remove_dir_all: the directory and everything beneath it
RemoveDirAll(f, p) == [q \in {x \in DOMAIN f : ~IsPrefix(p, x)} |-> f[q]]

HEAD == <<"H", "E", "A", "D">>
Objects == <<"o", "b", "j", "e", "c", "t", "s">>
Refs == <<"r", "e", "f", "s">>
Config == <<"c", "o", "n", "f", "i", "g">>

\* Repository::init_opts with bare(true): the missing directories of the
\* path are made, then the layout of a bare repository is written into it
BareLayout(p) ==
  [q \in {p, Append(p, HEAD), Append(p, Config), Append(p, Objects), Append(p, Refs)}
     |-> IF q \in {Append(p, HEAD), Append(p, Config)} THEN "file" ELSE "dir"]

Ancestors(p) == {SubSeq(p, 1, k) : k \in 1..(Len(p) - 1)}

InitOpts(f, p) ==
  IF \E a \in Ancestors(p) : Exists(f, a) /\ ~IsDirAt(f, a)
    THEN [ok |-> FALSE, fs |-> f]
  \* no_reinit(true): a repository that is already there is not initialised again
  ELSE IF /\ PathExists(f, Append(p, HEAD))
          /\ PathExists(f, Append(p, Objects))
          /\ PathExists(f, Append(p, Refs))
    THEN [ok |-> FALSE, fs |-> f]
    ELSE [ok |-> TRUE,
          fs |-> Extend(Extend(f, [a \in Ancestors(p) \ DOMAIN f |-> "dir"]),
                        BareLayout(p))]

(***************************************************************************)
(* LocalGitHub                                                             *)
(***************************************************************************)
\* the hub root given to LocalGitHub::new
hub_path == << <<"h", "u", "b">> >>

MaxNameLen == 255

invalid_chars == <<"/", "\\", ":", "*", "?", "\"", "<", ">", "|">>

\* validate_repo_name: the error it bails with, or "Ok"
validate_repo_name(name) ==
  IF name = <<>> THEN "InvalidName"
  ELSE IF \E i \in 1..Len(invalid_chars) : ContainsChar(name, invalid_chars[i])
    THEN "InvalidName"
  ELSE IF name = Dot \/ name = DotDot THEN "InvalidName"
  ELSE IF Len(name) > MaxNameLen THEN "InvalidName"
  ELSE "Ok"

\* the normalisation every operation applies to its name argument
repo_name(name) == IF EndsWith(name, DotGit) THEN name ELSE name \o DotGit

repo_path(name) == Join(hub_path, repo_name(name))

\* is_valid_git_repo looking for HEAD alone
is_valid_git_repo_head_only(f, path) == PathExists(f, Append(path, HEAD))

\* is_valid_git_repo
is_valid_git_repo(f, path) ==
  /\ PathExists(f, Append(path, HEAD))
  /\ PathExists(f, Append(path, Objects))
  /\ PathExists(f, Append(path, Refs))

Result(res, val, f) == [res |-> res, val |-> val, fs |-> f]

\* init
init(f) ==
  IF ~PathExists(f, hub_path)
    THEN Result("Ok", None, Extend(f, [a \in (Ancestors(hub_path) \cup {hub_path}) \ DOMAIN f |-> "dir"]))
    ELSE Result("Ok", None, f)

\* create_repo without the existence check
create_repo_unchecked(f, name) ==
  IF validate_repo_name(name) # "Ok" THEN Result(validate_repo_name(name), None, f)
  ELSE LET made == InitOpts(f, repo_path(name))
       IN  IF made.ok THEN Result("Ok", repo_path(name), made.fs)
           ELSE Result("IOFailure", None, f)

\* create_repo with the existence check made before the validation
create_repo_exists_first(f, name) ==
  IF PathExists(f, repo_path(name)) THEN Result("AlreadyExists", None, f)
  ELSE IF validate_repo_name(name) # "Ok" THEN Result(validate_repo_name(name), None, f)
  ELSE LET made == InitOpts(f, repo_path(name))
       IN  IF made.ok THEN Result("Ok", repo_path(name), made.fs)
           ELSE Result("IOFailure", None, f)

\* create_repo
create_repo(f, name) ==
  IF validate_repo_name(name) # "Ok" THEN Result(validate_repo_name(name), None, f)
  ELSE IF PathExists(f, repo_path(name)) THEN Result("AlreadyExists", None, f)
  ELSE LET made == InitOpts(f, repo_path(name))
       IN  IF made.ok THEN Result("Ok", repo_path(name), made.fs)
           ELSE Result("IOFailure", None, f)

\* the entries of the hub root that list_repos and list_repos_with_info keep
ListedEntries(f) ==
  {q \in Children(f, Resolve(f, hub_path)[1]) :
     f[q] = "dir" /\ Extension(q[Len(q)]) = Some(<<"g", "i", "t">>)}

\* list_repos making the hub root when it is missing
list_repos_creates_hub(f) ==
  IF ~PathExists(f, hub_path) THEN Result("Ok", <<>>, init(f).fs)
  ELSE IF ~PathIsDir(f, hub_path) THEN Result("IOFailure", None, f)
  ELSE Result("Ok", SortNames({q[Len(q)] : q \in ListedEntries(f)}), f)

\* list_repos
list_repos(f) ==
  IF ~PathExists(f, hub_path) THEN Result("Ok", <<>>, f)
  ELSE IF ~PathIsDir(f, hub_path) THEN Result("IOFailure", None, f)
  ELSE Result("Ok", SortNames({q[Len(q)] : q \in ListedEntries(f)}), f)

\* search_repos comparing the names as they are spelled
search_repos_case_sensitive(f, pattern) ==
  LET all == list_repos(f)
  IN  IF all.res # "Ok" THEN all
      ELSE Result("Ok",
                  SelectSeq(all.val, LAMBDA n : Contains(n, ToLowercase(pattern))),
                  f)

\* search_repos
search_repos(f, pattern) ==
  LET all == list_repos(f)
  IN  IF all.res # "Ok" THEN all
      ELSE Result("Ok",
                  SelectSeq(all.val,
                            LAMBDA n : Contains(ToLowercase(n), ToLowercase(pattern))),
                  f)

\* get_commit_count: no operation of the model writes a commit, so HEAD never
\* resolves and the count is absent
get_commit_count(f, path) == Nothing

\* get_repo_info
get_repo_info(f, name) ==
  IF ~PathExists(f, repo_path(name)) THEN Result("NotFound", None, f)
  ELSE Result("Ok",
              [name |-> repo_name(name), path |-> repo_path(name),
               commits |-> get_commit_count(f, repo_path(name))],
              f)

\* list_repos_with_info
list_repos_with_info(f) ==
  IF ~PathExists(f, hub_path) THEN Result("Ok", <<>>, f)
  ELSE IF ~PathIsDir(f, hub_path) THEN Result("IOFailure", None, f)
  ELSE LET names == SortNames({q[Len(q)] : q \in
                                 {e \in ListedEntries(f) :
                                    get_repo_info(f, e[Len(e)]).res = "Ok"}})
       IN  Result("Ok", [i \in 1..Len(names) |-> get_repo_info(f, names[i]).val], f)

\* get_repo_path
get_repo_path(f, name) ==
  IF ~PathExists(f, repo_path(name)) THEN Result("NotFound", None, f)
  ELSE Result("Ok", repo_path(name), f)

\* repo_exists
repo_exists(f, name) == Result("Ok", PathExists(f, repo_path(name)), f)

\* delete_repo with fs::remove_dir, which refuses a directory that is not empty
delete_repo_remove_dir(f, name) ==
  IF ~PathExists(f, repo_path(name)) THEN Result("NotFound", None, f)
  ELSE IF ~is_valid_git_repo(f, repo_path(name)) THEN Result("InvalidRepository", None, f)
  ELSE IF Children(f, Resolve(f, repo_path(name))[1]) # {} THEN Result("IOFailure", None, f)
  ELSE Result("Ok", None, RemoveDirAll(f, Resolve(f, repo_path(name))[1]))

\* delete_repo
delete_repo(f, name) ==
  IF ~PathExists(f, repo_path(name)) THEN Result("NotFound", None, f)
  ELSE IF ~is_valid_git_repo(f, repo_path(name)) THEN Result("InvalidRepository", None, f)
  ELSE Result("Ok", None, RemoveDirAll(f, Resolve(f, repo_path(name))[1]))

(***************************************************************************)
(* RemoteManager: the working repository's configuration                   *)
(*   cfg.url[n], cfg.pushurl[n], cfg.fetch[n] are the values of the keys   *)
(*   remote.<n>.url, remote.<n>.pushurl and remote.<n>.fetch, None when    *)
(*   the key is not set                                                    *)
(***************************************************************************)
\* find_remote looking at the url key alone
find_remote_url_only(c, n) == c.url[n] # None

\* Repository::find_remote succeeds when the url or the pushurl key is set
find_remote(c, n) == c.url[n] # None \/ c.pushurl[n] # None

\* Repository::remotes: the names with a url or pushurl key, sorted, each once
remotes(c) == SortNames({n \in DOMAIN c.url : find_remote(c, n)})

\* Repository::remote: writes the url and the default fetch refspec
remote_create(c, n, u) ==
  [c EXCEPT !.url[n] = u, !.fetch[n] = "+refs/heads/*"]

\* remote_delete dropping the url and fetch keys, the pushurl key left behind
remote_delete_keeps_pushurl(c, n) ==
  [c EXCEPT !.url[n] = None, !.fetch[n] = None]

\* Repository::remote_delete: drops the whole remote.<n> section
remote_delete(c, n) ==
  [c EXCEPT !.url[n] = None, !.pushurl[n] = None, !.fetch[n] = None]

RResult(res, val, c) == [res |-> res, val |-> val, cfg |-> c]

\* add_local_remote
add_local_remote(c, remote_name, hub_repo_str) ==
  IF find_remote(c, remote_name) THEN RResult("AlreadyExists", <<>>, c)
  ELSE RResult("Ok", <<>>, remote_create(c, remote_name, hub_repo_str))

\* add_push_url writing the url key
add_push_url_sets_url(c, remote_name, hub_repo_str) ==
  IF c.pushurl[remote_name] # None /\ c.pushurl[remote_name] = hub_repo_str
    THEN RResult("RedundantPushUrl", <<>>, c)
    ELSE RResult("Ok", <<>>, [c EXCEPT !.url[remote_name] = hub_repo_str])

\* add_push_url
add_push_url(c, remote_name, hub_repo_str) ==
  IF c.pushurl[remote_name] # None /\ c.pushurl[remote_name] = hub_repo_str
    THEN RResult("RedundantPushUrl", <<>>, c)
    ELSE RResult("Ok", <<>>, [c EXCEPT !.pushurl[remote_name] = hub_repo_str])

\* format!("{} (push)", name)
PushLabel(name) == name \o <<" ", "(", "p", "u", "s", "h", ")">>

\* the pairs list_remotes pushes for one remote
RemotePairs(c, n) ==
  IF c.url[n] = None THEN <<>>
  ELSE <<<<n, c.url[n]>>>> \o
       (IF c.pushurl[n] # None /\ c.pushurl[n] # c.url[n]
          THEN <<<<PushLabel(n), c.pushurl[n]>>>>
          ELSE <<>>)

RECURSIVE FlatPairs(_, _)
FlatPairs(c, names) ==
  IF names = <<>> THEN <<>>
  ELSE RemotePairs(c, Head(names)) \o FlatPairs(c, Tail(names))

\* list_remotes
list_remotes(c) == RResult("Ok", FlatPairs(c, remotes(c)), c)

\* remove_remote
remove_remote(c, remote_name) ==
  IF ~find_remote(c, remote_name) THEN RResult("NotFound", <<>>, c)
  ELSE RResult("Ok", <<>>, remote_delete(c, remote_name))

(***************************************************************************)
(* Inputs                                                                  *)
(***************************************************************************)
\* the most entries the hub root holds at once
MaxChildren == 2

LongName == Rep("a", MaxNameLen)

\* names that violate a rule of validation
InvalidNames ==
  { <<>>, Dot, DotDot, Rep("a", MaxNameLen + 1), LongName \o DotGit }
  \cup { <<"x", invalid_chars[i], "y">> : i \in 1..Len(invalid_chars) }

ShortNames == { <<"a">>, <<"a">> \o DotGit, <<"B">>, DotGit }

\* names given to create
CreateNames == ShortNames \cup { <<>>, <<"x", "/", "y">> }
AllCreateNames == ShortNames \cup { LongName } \cup InvalidNames

\* names given to delete, which validates nothing: repositories, what was
\* placed by hand, names that lead nowhere and other spellings of a path
DeleteNames ==
  { <<"a">>, <<"B">>, DotGit, <<>>, LongName, <<"j">>, <<"f">>, <<"x", "/", "y">>,
    <<".", ".", "/", "h", "u", "b", "/", "a">> }

InfoNames == { <<"a">>, DotGit, <<"j">>, <<"f">> }
PathNames == { <<"a">>, <<"j">> }
ExistsNames == { <<"a">>, <<"a">> \o DotGit, <<>>, <<"B">> }

Patterns == { <<>>, <<"A">>, <<"b">>, <<"x">>, <<".", "G", "I", "T">> }

\* what is placed by hand, outside the program
JunkDir == Append(hub_path, <<"j">> \o DotGit)
EnvDirs ==
  { JunkDir, Append(JunkDir, Objects), Append(JunkDir, Refs),
    Append(hub_path, <<"p">>) }
EnvFiles == { Append(JunkDir, HEAD), Append(hub_path, <<"f">> \o DotGit) }

RemoteNames == { <<"o", "r", "i", "g", "i", "n">>, <<"l", "o", "c", "a", "l", "-", "h", "u", "b">> }
Urls == { "/tmp/hub/proj.git", "/tmp/hub/other.git" }

(***************************************************************************)
(* State machine                                                           *)
(***************************************************************************)
NoOp == [op |-> "none", name |-> <<>>, res |-> "Ok", val |-> None]
EmptyCfg ==
  [url |-> [n \in RemoteNames |-> None], pushurl |-> [n \in RemoteNames |-> None],
   fetch |-> [n \in RemoteNames |-> None]]
RNoOp == [op |-> "none", name |-> <<>>, url |-> None, res |-> "Ok", val |-> <<>>]

\* the processes that call create_repo on the same hub root, and where each
\* stands: "idle", "check" (validated, before line 57), "init" (past the
\* existence check, before init_opts) or "done"
Procs == {1, 2}
Idle == [pc |-> "idle", name |-> <<>>, res |-> None]
RaceNames == { <<"a">>, <<"a">> \o DotGit, <<"B">>, <<>> }

Init ==
  /\ fs = [p \in {} |-> "dir"]
  /\ pre = [p \in {} |-> "dir"]
  /\ last = NoOp
  /\ prev = Nothing
  /\ cfg = EmptyCfg
  /\ rpre = EmptyCfg
  /\ rlast = RNoOp
  /\ procs = [p \in Procs |-> Idle]

HubChildren(f) == IF PathIsDir(f, hub_path) THEN Children(f, hub_path) ELSE {}

\* one call of a registry operation: its result is recorded in last, the tree
\* it found in pre, and prev keeps the call before it when that was a create
\* of a valid name
Call(op, name, r) ==
  /\ Cardinality(HubChildren(r.fs)) <= MaxChildren
  /\ fs' = r.fs
  /\ pre' = fs
  /\ last' = [op |-> op, name |-> name, res |-> r.res, val |-> r.val]
  /\ prev' = IF last.op = "create" /\ last.res \in {"Ok", "AlreadyExists"}
               THEN Some([name |-> last.name, res |-> last.res])
               ELSE Nothing
  /\ UNCHANGED <<cfg, rpre, rlast, procs>>

HubInit == Call("init", <<>>, init(fs))
Create == \E n \in CreateNames : Call("create", n, create_repo(fs, n))
List == Call("list", <<>>, list_repos(fs))
ListDetailed == Call("listDetailed", <<>>, list_repos_with_info(fs))
Search == \E p \in Patterns : Call("search", p, search_repos(fs, p))
Delete == \E n \in DeleteNames : Call("delete", n, delete_repo(fs, n))
Info == \E n \in InfoNames : Call("info", n, get_repo_info(fs, n))
GetPath == \E n \in PathNames : Call("path", n, get_repo_path(fs, n))
RepoExists == \E n \in ExistsNames : Call("exists", n, repo_exists(fs, n))

\* a directory or a file placed by hand
EnvMkdir ==
  \E p \in EnvDirs :
    /\ ~Exists(fs, p)
    /\ IsDirAt(fs, Parent(p))
    /\ Call("env", <<>>, Result("Ok", None, Extend(fs, [q \in {p} |-> "dir"])))
EnvWriteFile ==
  \E p \in EnvFiles :
    /\ ~Exists(fs, p)
    /\ IsDirAt(fs, Parent(p))
    /\ Call("env", <<>>, Result("Ok", None, Extend(fs, [q \in {p} |-> "file"])))

CreateAnyName == \E n \in AllCreateNames : Call("create", n, create_repo(fs, n))

Next ==
  \/ HubInit \/ Create \/ List \/ ListDetailed \/ Search \/ Delete
  \/ Info \/ GetPath \/ RepoExists \/ EnvMkdir \/ EnvWriteFile

Spec == Init /\ [][Next]_vars

\* the registry's writing operations, create over every name
CreateNext == HubInit \/ CreateAnyName \/ Delete \/ EnvMkdir \/ EnvWriteFile

SpecCreate == Init /\ [][CreateNext]_vars

\* a bare repository beside the hub root, made through a LocalGitHub whose hub
\* root is the root directory
OutsideRepo == << <<"o">> \o DotGit >>
EnvOutsideRepo ==
  /\ ~Exists(fs, OutsideRepo)
  /\ Call("env", <<>>, Result("Ok", None, InitOpts(fs, OutsideRepo).fs))

\* names given to delete that lead out of the hub root: a ".." component and
\* an absolute path
OutsideNames ==
  { <<"a">>, <<"B">>, <<".", ".", "/", "o">>, <<"/", "o", ".", "g", "i", "t">> }
DeleteAnywhere == \E n \in OutsideNames : Call("delete", n, delete_repo(fs, n))

DeleteNext == HubInit \/ Create \/ DeleteAnywhere \/ EnvOutsideRepo

SpecDelete == Init /\ [][DeleteNext]_vars

\* an existence check that waits while another process stands between its
\* own check and its init_opts
ExistenceCheckLocked(f, ps, p) ==
  IF \E q \in DOMAIN ps : q # p /\ ps[q].pc = "init" THEN "blocked"
  ELSE IF PathExists(f, repo_path(ps[p].name)) THEN "AlreadyExists" ELSE "pass"

\* create_repo taken step by step by processes that share the hub root.
\* what the existence check of process p finds: nothing but the tree is
\* consulted, no lock is taken and no other process's position plays a part
ExistenceCheck(f, ps, p) ==
  IF PathExists(f, repo_path(ps[p].name)) THEN "AlreadyExists" ELSE "pass"

RaceStep(ps, f) ==
  /\ procs' = ps
  /\ fs' = f
  /\ UNCHANGED <<pre, last, prev, cfg, rpre, rlast>>

\* the call, and validate_repo_name, which reads nothing shared
RaceCall(p) ==
  \E n \in RaceNames :
    /\ procs[p].pc = "idle"
    /\ RaceStep([procs EXCEPT ![p] =
                   IF validate_repo_name(n) # "Ok"
                     THEN [pc |-> "done", name |-> n, res |-> validate_repo_name(n)]
                     ELSE [pc |-> "check", name |-> n, res |-> None]],
                fs)

\* repo_path.exists()
RaceCheck(p) ==
  /\ procs[p].pc = "check"
  /\ ExistenceCheck(fs, procs, p) \in {"AlreadyExists", "pass"}
  /\ RaceStep([procs EXCEPT ![p] =
                 IF ExistenceCheck(fs, procs, p) = "pass"
                   THEN [@ EXCEPT !.pc = "init"]
                   ELSE [@ EXCEPT !.pc = "done", !.res = "AlreadyExists"]],
              fs)

\* Repository::init_opts
RaceInitRepo(p) ==
  /\ procs[p].pc = "init"
  /\ LET made == InitOpts(fs, repo_path(procs[p].name))
     IN  RaceStep([procs EXCEPT ![p] =
                     [@ EXCEPT !.pc = "done",
                               !.res = IF made.ok THEN "Ok" ELSE "IOFailure"]],
                  made.fs)

\* the call returns
RaceReturn(p) ==
  /\ procs[p].pc = "done"
  /\ RaceStep([procs EXCEPT ![p] = Idle], fs)

RaceNext ==
  \E p \in Procs : RaceCall(p) \/ RaceCheck(p) \/ RaceInitRepo(p) \/ RaceReturn(p)

SpecRace == Init /\ [][RaceNext]_vars

\* one call of a configurator operation
RCall(op, name, url, r) ==
  /\ cfg' = r.cfg
  /\ rpre' = cfg
  /\ rlast' = [op |-> op, name |-> name, url |-> url, res |-> r.res, val |-> r.val]
  /\ UNCHANGED <<fs, pre, last, prev, procs>>

AddRemote == \E n \in RemoteNames, u \in Urls : RCall("addRemote", n, u, add_local_remote(cfg, n, u))
AddPushUrl == \E n \in RemoteNames, u \in Urls : RCall("addPushUrl", n, u, add_push_url(cfg, n, u))
ListRemotes == RCall("listRemotes", <<>>, None, list_remotes(cfg))
RemoveRemote == \E n \in RemoteNames : RCall("removeRemote", n, None, remove_remote(cfg, n))

RemoteNext == AddRemote \/ AddPushUrl \/ ListRemotes \/ RemoveRemote

SpecRemote == Init /\ [][RemoteNext]_vars

(***************************************************************************)
(* Properties of the registry                                              *)
(***************************************************************************)
\* the rules of name validation, as the specification words them
ForbiddenChars == {"/", "\\", ":", "*", "?", "\"", "<", ">", "|"}
NameBreaksRule(n) ==
  \/ n = <<>>
  \/ Len(n) > MaxNameLen
  \/ n = Dot \/ n = DotDot
  \/ \E c \in ForbiddenChars : ContainsChar(n, c)

\* the structural check: HEAD, objects and refs are all present in what the
\* path leads to
HasBareLayout(f, path) ==
  LET r == Resolve(f, path)
  IN  /\ r # Nothing
      /\ {Append(r[1], HEAD), Append(r[1], Objects), Append(r[1], Refs)} \subseteq DOMAIN f

Elems(q) == {q[i] : i \in 1..Len(q)}

\* the name with the suffix, and without it
SuffixVariants(n) ==
  {n} \cup
  (IF EndsWith(n, DotGit) THEN {SubSeq(n, 1, Len(n) - Len(DotGit))} ELSE {n \o DotGit})

C2_InvalidNameRejected ==
  (last.op = "create" /\ NameBreaksRule(last.name))
    => (last.res = "InvalidName" /\ fs = pre)

C2_Witness ==
  /\ last.op = "create" /\ last.res = "InvalidName"
  /\ PathExists(pre, repo_path(last.name))
  /\ fs = pre

\* C3: delete fails with NotFound when the normalised path is absent, with
\* InvalidRepository when it exists and fails the structural check, in both
\* cases leaving the tree unchanged; whatever it removes passed the check.
C3_DeleteGuarded ==
  last.op = "delete" =>
    /\ ~PathExists(pre, repo_path(last.name)) => (last.res = "NotFound" /\ fs = pre)
    /\ (PathExists(pre, repo_path(last.name)) /\ ~HasBareLayout(pre, repo_path(last.name)))
         => (last.res = "InvalidRepository" /\ fs = pre)
    /\ fs # pre => HasBareLayout(pre, repo_path(last.name))

C3_Witness ==
  /\ last.op = "delete" /\ last.res = "InvalidRepository"
  /\ PathExists(pre, Append(repo_path(last.name), HEAD))
  /\ fs = pre

\* C4: a delete that follows a successful create of the same name succeeds;
\* after it exists is false, info and path fail with NotFound, list does not
\* hold the normalised name, create succeeds again, and nothing outside the
\* deleted repository has changed.
C4_CreateDeleteRoundTrip ==
  (/\ last.op = "delete" /\ prev # Nothing
   /\ prev[1].res = "Ok" /\ prev[1].name = last.name)
    => /\ last.res = "Ok"
       /\ ~repo_exists(fs, last.name).val
       /\ get_repo_info(fs, last.name).res = "NotFound"
       /\ get_repo_path(fs, last.name).res = "NotFound"
       /\ repo_name(last.name) \notin Elems(list_repos(fs).val)
       /\ create_repo(fs, last.name).res = "Ok"
       /\ DOMAIN fs = {p \in DOMAIN pre : ~IsPrefix(repo_path(last.name), p)}
       /\ \A p \in DOMAIN fs : fs[p] = pre[p]

C4_Witness ==
  /\ last.op = "delete" /\ last.res = "Ok"
  /\ prev # Nothing /\ prev[1].res = "Ok" /\ prev[1].name = last.name
  /\ HubChildren(fs) # {}
  /\ ~repo_exists(fs, last.name).val

\* the names of the directories directly under the hub root that end with ".git"
SuffixedDirs(f) ==
  {q[Len(q)] : q \in {c \in HubChildren(f) : f[c] = "dir" /\ EndsWith(c[Len(c)], DotGit)}}

\* C5: list returns the names of the directories directly under the hub root
\* that end with ".git", each once, in ascending order, and the empty sequence
\* when the hub root does not exist.
C5_ListIsSuffixedDirs ==
  last.op = "list" =>
    /\ last.res = "Ok"
    /\ Elems(last.val) = SuffixedDirs(fs)
    /\ \A i, j \in 1..Len(last.val) : i < j => StrLess(last.val[i], last.val[j])
    /\ ~PathExists(fs, hub_path) => last.val = <<>>

\* the lower-cased pattern occurs in the lower-cased name
MatchesIgnoringCase(n, pat) ==
  \E i \in 0..(Len(n) - Len(pat)) :
    \A k \in 1..Len(pat) : LowerChar(n[i + k]) = LowerChar(pat[k])

\* C6: search returns the elements of list whose lower-cased name holds the
\* lower-cased pattern, in list's order; search of the empty pattern is list.
C6_SearchFiltersList ==
  last.op = "search" =>
    /\ last.res = "Ok"
    /\ last.val = SelectSeq(list_repos(fs).val, LAMBDA n : MatchesIgnoringCase(n, last.name))
    /\ Elems(last.val) \subseteq Elems(list_repos(fs).val)
    /\ last.name = <<>> => last.val = list_repos(fs).val

C6_Witness ==
  /\ last.op = "search" /\ last.name = <<"b">>
  /\ last.val = << <<"B">> \o DotGit >>
  /\ Len(list_repos(fs).val) = 2

\* a record stands for a directory directly under the hub root that passes
\* the structural check
RecordIsRepository(f, rec) ==
  /\ Resolve(f, rec.path) # Nothing
  /\ Resolve(f, rec.path)[1] \in HubChildren(f)
  /\ f[Resolve(f, rec.path)[1]] = "dir"
  /\ HasBareLayout(f, rec.path)

\* C7: every record info or listDetailed returns stands for a directory
\* directly under the hub root that passes the structural check.
C7_RecordsAreRepositories ==
  /\ (last.op = "info" /\ last.res = "Ok") => RecordIsRepository(fs, last.val)
  /\ (last.op = "listDetailed" /\ last.res = "Ok")
       => \A i \in 1..Len(last.val) : RecordIsRepository(fs, last.val[i])

(***************************************************************************)
(* Properties of the remote configurator                                   *)
(***************************************************************************)
\* a remote name is configured when one of its url keys is set
Configured(c, n) == c.url[n] # None \/ c.pushurl[n] # None

\* C8: addRemote of a name that is not configured succeeds, after which
\* listRemotes holds the pair (name, url) and no pair named "name (push)";
\* addRemote of a configured name fails with AlreadyExists and changes nothing.
C8_AddRemote ==
  rlast.op = "addRemote" =>
    /\ ~Configured(rpre, rlast.name) =>
         /\ rlast.res = "Ok"
         /\ <<rlast.name, rlast.url>> \in Elems(list_remotes(cfg).val)
         /\ \A pair \in Elems(list_remotes(cfg).val) : pair[1] # PushLabel(rlast.name)
    /\ Configured(rpre, rlast.name) => (rlast.res = "AlreadyExists" /\ cfg = rpre)

C8_Witness ==
  /\ rlast.op = "addRemote" /\ rlast.res = "Ok"
  /\ <<rlast.name, rlast.url>> \in Elems(list_remotes(cfg).val)
  /\ \E m \in RemoteNames : m # rlast.name /\ cfg.pushurl[m] # None

\* C9: a successful addPushUrl on an existing remote sets its one push URL to
\* the new URL, leaves its fetch URL and every other remote as they were, and
\* listRemotes then holds (name, url) directly followed by ("name (push)",
\* newUrl) when the two URLs differ.
C9_AddPushUrl ==
  (rlast.op = "addPushUrl" /\ rlast.res = "Ok" /\ rpre.url[rlast.name] # None) =>
    /\ cfg.pushurl[rlast.name] = rlast.url
    /\ cfg.url = rpre.url
    /\ cfg.fetch = rpre.fetch
    /\ \A m \in RemoteNames \ {rlast.name} : cfg.pushurl[m] = rpre.pushurl[m]
    /\ rlast.url # cfg.url[rlast.name] =>
         LET pairs == list_remotes(cfg).val
         IN  \E i \in 1..(Len(pairs) - 1) :
               /\ pairs[i] = <<rlast.name, rpre.url[rlast.name]>>
               /\ pairs[i + 1] = <<PushLabel(rlast.name), rlast.url>>

C9_Witness ==
  /\ rlast.op = "addPushUrl" /\ rlast.res = "Ok"
  /\ rpre.url[rlast.name] # None
  /\ rpre.pushurl[rlast.name] # None
  /\ rlast.url # rpre.url[rlast.name]
  /\ cfg.pushurl[rlast.name] = rlast.url

\* C10: a push URL that is set differs from the remote's primary URL, and
\* addPushUrl of a URL equal to the primary URL or to the current push URL is
\* rejected with RedundantPushUrl, the configuration unchanged.
C10_PushUrlDiffers ==
  /\ \A n \in RemoteNames :
       (cfg.url[n] # None /\ cfg.pushurl[n] # None) => cfg.pushurl[n] # cfg.url[n]
  /\ (/\ rlast.op = "addPushUrl"
      /\ rlast.url \in {rpre.url[rlast.name], rpre.pushurl[rlast.name]})
       => (rlast.res = "RedundantPushUrl" /\ cfg = rpre)

\* C11: removeRemote of a name that is not configured fails with NotFound and
\* changes nothing; otherwise it removes the remote's url, push URL and fetch
\* keys and nothing else, listRemotes then holds no pair named after it,
\* addRemote of the name succeeds again, and the remote added again has no
\* push URL.
C11_RemoveRemote ==
  rlast.op = "removeRemote" =>
    /\ ~Configured(rpre, rlast.name) => (rlast.res = "NotFound" /\ cfg = rpre)
    /\ Configured(rpre, rlast.name) =>
         /\ rlast.res = "Ok"
         /\ cfg.url[rlast.name] = None
         /\ cfg.pushurl[rlast.name] = None
         /\ cfg.fetch[rlast.name] = None
         /\ \A m \in RemoteNames \ {rlast.name} :
              /\ cfg.url[m] = rpre.url[m]
              /\ cfg.pushurl[m] = rpre.pushurl[m]
              /\ cfg.fetch[m] = rpre.fetch[m]
         /\ \A pair \in Elems(list_remotes(cfg).val) :
              pair[1] \notin {rlast.name, PushLabel(rlast.name)}
         /\ \A u \in Urls :
              LET again == add_local_remote(cfg, rlast.name, u)
              IN  /\ again.res = "Ok"
                  /\ again.cfg.url[rlast.name] = u
                  /\ again.cfg.pushurl[rlast.name] = None
                  /\ \A pair \in Elems(list_remotes(again.cfg).val) :
                       pair[1] # PushLabel(rlast.name)

C11_Witness ==
  /\ rlast.op = "removeRemote" /\ rlast.res = "Ok"
  /\ rpre.url[rlast.name] # None
  /\ rpre.pushurl[rlast.name] # None
  /\ rpre.pushurl[rlast.name] # rpre.url[rlast.name]
  /\ \E m \in RemoteNames : m # rlast.name /\ cfg.url[m] # None

ReadOps == {"list", "listDetailed", "search", "info", "path", "exists"}

\* C12: list, listDetailed, search, info, path and exists leave the tree as
\* they found it, whether they succeed or fail and whether or not the hub
\* root exists.
C12_ReadsLeaveTree ==
  last.op \in ReadOps => fs = pre

C12_Witness ==
  /\ last.op = "list" /\ last.res = "Ok"
  /\ ~PathExists(pre, hub_path)
  /\ fs = pre

\* C13: create is check-then-act with no lock between the two steps: while one
\* process stands between its existence check and its initialisation, the
\* existence check of another process on the same name can be taken and
\* passes, so both are past the check before the directory exists.
C13_CheckThenAct ==
  \A p, q \in Procs :
    (/\ p # q
     /\ procs[p].pc = "init" /\ procs[q].pc = "check"
     /\ repo_name(procs[p].name) = repo_name(procs[q].name)
     /\ ~PathExists(fs, repo_path(procs[p].name)))
      => ENABLED (RaceCheck(q) /\ procs'[q].pc = "init")

C13_Witness ==
  /\ \A p \in Procs : procs[p].pc = "init"
  /\ repo_name(procs[1].name) = repo_name(procs[2].name)
  /\ ~PathExists(fs, repo_path(procs[1].name))

\* C14: whatever name it is given, delete removes at most one directory, and
\* that directory is a direct subdirectory of the hub root; nothing outside
\* the hub root is removed.
C14_DeleteConfined ==
  last.op = "delete" =>
    LET removed == DOMAIN pre \ DOMAIN fs
        tops == {p \in removed : Parent(p) \notin removed}
    IN  /\ Cardinality(tops) <= 1
        /\ \A p \in tops : Parent(p) = hub_path /\ pre[p] = "dir"
        /\ \A p \in removed : IsPrefix(hub_path, p)
====
